---------------------------- MODULE Spec2Model ----------------------------
(***************************************************************************)
(* State-machine model of the html-audio-response plugin with voice key    *)
(* (class HtmlAudioResponsePlugin, src/unnamed/part_000 lines 87-403).     *)
(*                                                                         *)
(* One action per handler of the plugin: the trial entry point, the        *)
(* recorder's start / dataavailable / stop listeners, the FileReader load  *)
(* listener, the ResizeObserver callback, the button listeners and the     *)
(* four kinds of timer callback.  The browser is the environment: it       *)
(* delivers recorder events in FIFO order, completes FileReader loads,     *)
(* supplies the microphone samples read at each poll and lets time pass.   *)
(* A timer fires at its due time: the clock never passes a due timer.      *)
(***************************************************************************)
EXTENDS Integers, Sequences, FiniteSets, TLC

(***************************************************************************)
(* Bounds of the model.                                                    *)
(***************************************************************************)
\* successful recorder.start() calls explored in one trial
MaxAttempts == 3
\* latest clock value explored (milliseconds)
MaxTime == 10
\* fragments the device delivers while an attempt is recording
MaxFrags == 1
\* largest fragment size (bytes)
MaxFragSize == 1
\* stop requests made while the recorder is already inactive
MaxIdleStops == 1
\* length of the analyser's sample window (frequencyBinCount)
FrequencyBinCount == 2
\* the deadline the watcher is claimed to observe (milliseconds)
WatcherDeadline == 5

(***************************************************************************)
(* Values standing for JavaScript's null, undefined and NaN in numeric     *)
(* fields.                                                                 *)
(***************************************************************************)
Null == 0 - 1
Undefined == 0 - 2
NaN == 0 - 3

\* setTimeout(logAmplitude, 5)
PollInterval == 5

\* const value = (this.dataArray[i] - 128) / 128
ByteCenter == 128

(***************************************************************************)
(* Inputs: the trial parameters (info.parameters) drawn for a trial.       *)
(***************************************************************************)
\* amplitude_threshold as a fraction n/d; 1/2 is reachable exactly by bytes
Thresholds == { [n |-> 1, d |-> 2] }
\* recording_duration: none, one poll interval, two poll intervals
RecordingDurations == { Null, PollInterval, 2 * PollInterval }
StimulusDurations == { Null, 5 }
TimerDurations == { 5 }

TrialParams ==
  [ allow_playback : BOOLEAN,
    show_done_button : BOOLEAN,
    save_audio_url : BOOLEAN,
    use_voice_key : BOOLEAN,
    recording_duration : RecordingDurations,
    stimulus_duration : StimulusDurations,
    amplitude_threshold : Thresholds,
    timer_duration : TimerDurations ]

(***************************************************************************)
(* The microphone signal: the windows getByteTimeDomainData may write at a *)
(* poll.                                                                   *)
(***************************************************************************)
ConstWindow(v) == [i \in 1..FrequencyBinCount |-> v]
MixedWindow == [i \in 1..FrequencyBinCount |-> IF i = 1 THEN 255 ELSE 128]
Signals == { ConstWindow(128), ConstWindow(192), MixedWindow }

(***************************************************************************)
(* The environment of a trial: the sample windows the microphone yields,   *)
(* the fragment sizes and the number of fragments the device delivers      *)
(* while recording, how often the participant clicks the done button again *)
(* after the recorder has stopped, how many recordings are started,        *)
(* how the load of the alert sound ends (an AudioBufferSourceNode, an      *)
(* audio element, a failure, or not within the trial),                     *)
(* whether recorder.start() works on the microphone stream and whether     *)
(* every FileReader read succeeds.                                         *)
(***************************************************************************)
Quiet == { ConstWindow(128) }
Envs ==
  [ windows : { Quiet, { ConstWindow(192) }, { MixedWindow }, Signals },
    sizes : { {1}, 0..MaxFragSize },
    frags : { 0, MaxFrags },
    idle : { 0, MaxIdleStops },
    attempts : { MaxAttempts - 1, MaxAttempts },
    asset : { "node", "element", "fails", "never" },
    device : { "ok", "unavailable" },
    encoding : { "ok", "fails" } ]

\* new Uint8Array(this.bufferLength): zero filled
NewUint8Array(len) == [i \in 1..len |-> 0]

(***************************************************************************)
(* Amplitude (logAmplitude, lines 277-287).                                *)
(*   sum += ((dataArray[i] - 128) / 128)^2 ; amplitude = sqrt(sum / len)   *)
(* SumSq keeps the sum scaled by 128^2, so that all arithmetic is exact.   *)
(***************************************************************************)
RECURSIVE SumSq(_, _)
SumSq(arr, len) ==
  IF len = 0 THEN 0
  ELSE SumSq(arr, len - 1) + (arr[len] - ByteCenter) * (arr[len] - ByteCenter)

\* mutant of AmplitudeExceeds: >= in place of >
AmplitudeReaches(arr, len, thr) ==
  /\ len > 0
  /\ SumSq(arr, len) * thr.d * thr.d >= thr.n * thr.n * ByteCenter * ByteCenter * len

\* mutant of AmplitudeExceeds: the bytes are not centred on 128 (SumSq
\* subtracts 128 from arr[i] + 128)
AmplitudeExceedsUncentered(arr, len, thr) ==
  /\ len > 0
  /\ SumSq([i \in 1..len |-> arr[i] + ByteCenter], len) * thr.d * thr.d
       > thr.n * thr.n * ByteCenter * ByteCenter * len

\* amplitude > trial.amplitude_threshold, for a threshold n/d >= 0:
\*   sqrt(S / (128^2 * len)) > n/d  <=>  S * d^2 > n^2 * 128^2 * len.
\* With len = 0 the amplitude is NaN and the comparison is false.
AmplitudeExceeds(arr, len, thr) ==
  /\ len > 0
  /\ SumSq(arr, len) * thr.d * thr.d > thr.n * thr.n * ByteCenter * ByteCenter * len

\* private timeout: any -- declared at line 105 and never assigned
timeout == Undefined

\* Date.now() - this.startTime > this.timeout: a comparison with undefined
\* (NaN after conversion) is false
TimeoutReached(dateNow, start, limit) ==
  IF limit = Undefined \/ start = Undefined THEN FALSE ELSE dateNow - start > limit

(***************************************************************************)
(* Blob and FileReader.                                                    *)
(* A fragment is [att, k, size]; its bytes are size copies of <<att, k>>.  *)
(***************************************************************************)
FragBytes(f) == [i \in 1..f.size |-> <<f.att, f.k>>]

\* new Blob(this.recorded_data_chunks): the parts concatenated in order
RECURSIVE Blob(_)
Blob(chunks) ==
  IF chunks = << >> THEN << >>
  ELSE FragBytes(Head(chunks)) \o Blob(Tail(chunks))

\* reader.readAsDataURL(data): "data:audio/webm;base64,<payload>"
ReadAsDataURL(bytes) == << "data:audio/webm;base64", [base64 |-> bytes] >>

\* (reader.result as string).split(",")[1]
Base64Part(dataUrl) == dataUrl[2]

(***************************************************************************)
(* State.                                                                  *)
(***************************************************************************)
VARIABLES
  pc,                    \* "constructed" before trial() is called, then "running",
                         \* or "threw" when trial() ended with an exception
  trial,                 \* the trial parameters
  env,                   \* what the microphone, the device and the participant may do
  alert_sound,           \* this.alert_sound: "undefined", "node", "node_started", "element"
  asset_load,            \* the getAudioBuffer promise: "none", "pending", "loaded", "failed"
  now,                   \* performance.now()
  recorder_state,        \* this.recorder.state
  events,                \* recorder events queued by the device, FIFO
  listeners,             \* whether the plugin's recorder listeners are attached
  attempt,               \* number of successful recorder.start() calls
  fragsSent,             \* fragments the device delivered in this attempt
  recorded_data_chunks,
  audio_url,
  urlCount,              \* object URLs created so far
  liveUrls,              \* object URLs created and not revoked
  revoked,               \* the URL.revokeObjectURL calls made, in order
  response,
  readers,               \* FileReaders that are reading, or whose read failed
  load_resolver,         \* index into promises, 0 when undefined
  promises,              \* the promises returned by stopRecording
  rt,
  stimulus_start_time,
  recorder_start_time,
  display,               \* what display_element holds
  stimulusVisible,
  alertOpacity,
  observers,             \* ResizeObservers whose first callback is pending
  timers,                \* pending pluginAPI.setTimeout handles
  samplers,              \* AudioContext + analyser pairs created
  bufferLength,
  dataArray,
  startTime,
  watch,                 \* per watcher: status, start, onset, window at onset
  alertLog,              \* the alert callbacks that ran
  stopLog,               \* the accepted stop requests
  contLog,               \* the continuations of stopRecording that ran
  lastBlob,              \* the payload the stop listener built last
  delivered,             \* fragments handled since the last start event
  clears,                \* chunk-buffer clears per attempt
  results,               \* the records handed to jsPsych.finishTrial
  typing                 \* the state of a trial of the typing plugin

vars == << pc, trial, env, alert_sound, asset_load, now, recorder_state, events, listeners, attempt, fragsSent,
           recorded_data_chunks, audio_url, urlCount, liveUrls, revoked, response, readers,
           load_resolver, promises, rt, stimulus_start_time, recorder_start_time,
           display, stimulusVisible, alertOpacity, observers, timers, samplers,
           bufferLength, dataArray, startTime, watch, alertLog, stopLog,
           contLog, lastBlob, delivered, clears, results, typing >>

(***************************************************************************)
(* The typing plugin (class ImageKeyboardResponsePlugin): the closure      *)
(* variables of trial(), in two variants of the source:                    *)
(*   "package"  src/packages/plugin-image-keyboard-response-logger/        *)
(*              src/index.ts                                               *)
(*   "part_000" src/unnamed/part_000, lines 407-925                        *)
(* A string is a sequence of one-character strings.                        *)
(***************************************************************************)
\* key presses explored in one trial
MaxKeyPresses == 4

TypingVariants == { "package", "part_000" }

\* info.key of the key presses explored
Keys == { "a", " ", "backspace", "enter", "shift" }

TypingTrialParams ==
  [ trigger_end : BOOLEAN,
    space_allowed : BOOLEAN,
    correction_delay : { 5 },
    trial_duration : { Null, 10 },
    stimulus_duration : { Null, 5 },
    trigger_list : { {}, { << "a" >> } },
    choices : { "ALL_KEYS", "NO_KEYS" } ]

\* the locals of trial() before it is called (lines 485-492)
NewTyping(variant, params) ==
  [ pc |-> "constructed",
    variant |-> variant,
    trial |-> params,
    startTime |-> Undefined,
    words |-> << >>,
    buffer |-> << >>,
    wholebuffer |-> << >>,
    responses |-> << >>,
    triggered |-> FALSE,
    eventTime |-> Undefined,
    keyboardListener |-> FALSE,
    stimulusHidden |-> FALSE,
    timers |-> {},
    timerCount |-> 0,
    enterLog |-> {},
    results |-> << >> ]

\* the typing plugin of a session that runs the audio plugin only
TypingNotRun ==
  NewTyping("package",
            [ trigger_end |-> FALSE, space_allowed |-> TRUE, correction_delay |-> 5,
              trial_duration |-> Null, stimulus_duration |-> Null,
              trigger_list |-> {}, choices |-> "ALL_KEYS" ])

\* the typing plugin before trial is called, for every variant and parameters
TypingInits == { NewTyping(v, p) : v \in TypingVariants, p \in TypingTrialParams }

Attempts == 1..MaxAttempts

NoWatch == [status |-> "none", start |-> Undefined, onset |-> Undefined, win |-> << >>]

\* The state after construction (field initialisers, lines 89-106).
Init ==
  /\ pc = "constructed"
  /\ trial \in TrialParams
  /\ env \in Envs
  /\ alert_sound = "undefined"
  /\ asset_load = "none"
  /\ now = 0
  /\ recorder_state = "inactive"
  /\ events = << >>
  /\ listeners = FALSE
  /\ attempt = 0
  /\ fragsSent = 0
  /\ recorded_data_chunks = << >>
  /\ audio_url = 0
  /\ urlCount = 0
  /\ liveUrls = {}
  /\ revoked = << >>
  /\ response = [att |-> 0, base64 |-> << >>]
  /\ readers = {}
  /\ load_resolver = 0
  /\ promises = << >>
  /\ rt = Null
  /\ stimulus_start_time = Undefined
  /\ recorder_start_time = Undefined
  /\ display = "blank"
  /\ stimulusVisible = FALSE
  /\ alertOpacity = 0
  /\ observers = 0
  /\ timers = {}
  /\ samplers = 0
  /\ bufferLength = Undefined
  /\ dataArray = << >>
  /\ startTime = Undefined
  /\ watch = [a \in Attempts |-> NoWatch]
  /\ alertLog = {}
  /\ stopLog = {}
  /\ contLog = {}
  /\ lastBlob = [att |-> 0, data |-> << >>, delivered |-> << >>]
  /\ delivered = << >>
  /\ clears = [a \in Attempts |-> 0]
  /\ results = << >>
  /\ typing \in TypingInits


(***************************************************************************)
(* Clocks.  performance.now() is `now`; Date.now() counts from the epoch.  *)
(***************************************************************************)
TimeOrigin == 1000
DateNow == TimeOrigin + now

Timer(kind, due, att) == [kind |-> kind, due |-> due, att |-> att]

\* mutant of clearAllTimeouts: the pending timers are left in place
keepAllTimeouts == timers

\* jsPsych.pluginAPI.clearAllTimeouts()
clearAllTimeouts == {}

StopRequested(a) == \E s \in stopLog : s.att = a

\* the time at which the start event of attempt a was handled
\* (this.recorder_start_time while a is the attempt confirmed last)
ConfirmedAt(a) == IF clears[a] = 1 /\ a = attempt THEN recorder_start_time ELSE Undefined

\* attempt a was asked to stop at a time strictly before the present
StoppedEarlier(a) == \E s \in stopLog : s.att = a /\ s.t < now

\* mutant of AlertTimer: the alert is armed without the delay
AlertTimerNoDelay(w) == Timer("alert", now, w)

\* this.jsPsych.pluginAPI.setTimeout(() => {...}, trial.timer_duration), run when
\* the watcher's promise resolves (lines 335-340)
AlertTimer(w) == Timer("alert", now + trial.timer_duration, w)

\* the time of a watcher's first tick, kept for the properties
Launched(wt) == IF wt.status = "none" THEN now ELSE wt.start

(***************************************************************************)
(* logAmplitude (lines 273-302), one poll of watcher w.  tm is the set of  *)
(* pending timers the poll adds to, st the value of this.startTime, len    *)
(* the value of this.bufferLength.  A                                      *)
(* resolved promise runs its then-callback (lines 331-341) in the same     *)
(* task, which arms the alert timer.                                       *)
(***************************************************************************)
logAmplitude(w, tm, st, len) ==
  \E signal \in env.windows :
  /\ dataArray' = signal
  /\ IF AmplitudeExceeds(signal, len, trial.amplitude_threshold)
     THEN /\ watch' = [watch EXCEPT ![w] = [status |-> "resolved", start |-> Launched(@),
                                            onset |-> now, win |-> signal]]
          /\ timers' = tm \cup { AlertTimer(w) }
     ELSE IF TimeoutReached(DateNow, st, timeout)
     THEN /\ watch' = [watch EXCEPT ![w] = [status |-> "rejected", start |-> Launched(@),
                                            onset |-> @.onset, win |-> signal]]
          /\ timers' = tm
     ELSE /\ watch' = [watch EXCEPT ![w] = [status |-> "polling", start |-> Launched(@),
                                            onset |-> @.onset, win |-> signal]]
          /\ timers' = tm \cup { Timer("poll", now + PollInterval, w) }

\* this.recorder.start() (line 327) returns normally
StartSucceeds == recorder_state = "inactive" /\ env.device = "ok"

(***************************************************************************)
(* startRecording (lines 318-344).  A new AudioContext and analyser are    *)
(* created first; recorder.start() throws when the recorder is not         *)
(* inactive (InvalidStateError) or cannot record the stream                *)
(* (NotSupportedError, SecurityError), which abandons the rest of the      *)
(* function and its caller.                                                *)
(* tm is the set of pending timers at the call.                            *)
(***************************************************************************)
startRecording(tm) ==
  /\ samplers' = samplers + 1
  /\ bufferLength' = FrequencyBinCount
  /\ IF StartSucceeds
     THEN /\ recorder_state' = "recording"
          /\ attempt' = attempt + 1
          /\ fragsSent' = 0
          /\ events' = Append(events, [type |-> "start", att |-> attempt + 1, frag |-> << >>])
          /\ startTime' = now
          /\ logAmplitude(attempt + 1, tm, now, FrequencyBinCount)
     ELSE /\ dataArray' = NewUint8Array(FrequencyBinCount)
          /\ timers' = tm
          /\ UNCHANGED << recorder_state, attempt, fragsSent, events, startTime, watch >>

(***************************************************************************)
(* stopRecording (lines 346-351).  On a recording recorder, stop() makes   *)
(* it inactive and the device queues the final dataavailable event and the *)
(* stop event.  On an inactive recorder stop() either throws               *)
(* InvalidStateError (older browsers), which abandons the caller, or does  *)
(* nothing, after which the promise is still created.                      *)
(***************************************************************************)
NewPromise(by) == [att |-> attempt, by |-> by, state |-> "pending"]

stopRecording(by, armed) ==
  IF recorder_state = "recording"
  THEN /\ recorder_state' = "inactive"
       /\ \E size \in env.sizes :
            events' = events \o
              << [type |-> "dataavailable", att |-> attempt,
                  frag |-> [att |-> attempt, k |-> fragsSent + 1, size |-> size]],
                 [type |-> "stop", att |-> attempt, frag |-> << >>] >>
       /\ promises' = Append(promises, NewPromise(by))
       /\ load_resolver' = Len(promises) + 1
       /\ stopLog' = stopLog \cup { [att |-> attempt, by |-> by, armed |-> armed, t |-> now,
                                   confirmed |-> ConfirmedAt(attempt)] }
       /\ UNCHANGED fragsSent
  ELSE /\ Len(promises) < Cardinality(stopLog) + env.idle
       /\ \/ /\ promises' = Append(promises, NewPromise(by))
             /\ load_resolver' = Len(promises) + 1
          \/ UNCHANGED << promises, load_resolver >>
       /\ UNCHANGED << recorder_state, events, stopLog, fragsSent >>

\* URL.revokeObjectURL(url) (lines 362 and 394)
revokeObjectURL(url) ==
  /\ liveUrls' = liveUrls \ {url}
  /\ revoked' = Append(revoked, url)

(***************************************************************************)
(* endTrial (lines 373-402).  resp is the value of this.response.          *)
(***************************************************************************)
TrialData(resp) ==
  [ rt |-> rt,
    response |-> resp,
    estimated_stimulus_onset |->
      IF stimulus_start_time = Undefined \/ recorder_start_time = Undefined
      THEN NaN ELSE stimulus_start_time - recorder_start_time,
    audio_url |-> IF trial.save_audio_url THEN audio_url ELSE Undefined,
    att |-> attempt ]

\* mutant of endTrial: the recorder's listeners are left attached
endTrialKeepListeners(resp) ==
  /\ listeners' = listeners
  /\ timers' = clearAllTimeouts
  /\ IF trial.save_audio_url
     THEN UNCHANGED << liveUrls, revoked >>
     ELSE revokeObjectURL(audio_url)
  /\ display' = "cleared"
  /\ stimulusVisible' = FALSE
  /\ alertOpacity' = 0
  /\ results' = Append(results, TrialData(resp))

endTrial(resp) ==
  /\ listeners' = FALSE
  /\ timers' = clearAllTimeouts
  /\ IF trial.save_audio_url
     THEN UNCHANGED << liveUrls, revoked >>
     ELSE revokeObjectURL(audio_url)
  /\ display' = "cleared"
  /\ stimulusVisible' = FALSE
  /\ alertOpacity' = 0
  /\ results' = Append(results, TrialData(resp))

\* showPlaybackControls (lines 353-358)
showPlaybackControls ==
  /\ display' = "playback"
  /\ stimulusVisible' = FALSE
  /\ alertOpacity' = 0

(***************************************************************************)
(* Actions.                                                                *)
(***************************************************************************)
Due(t) == t \in timers /\ t.due <= now

\* trial (lines 110-140): attach the recorder listeners, start recording
Trial ==
  /\ pc = "constructed"
  /\ pc' = IF StartSucceeds THEN "running" ELSE "threw"
  /\ listeners' = TRUE
  /\ startRecording(timers)
  /\ asset_load' = "pending"
  /\ UNCHANGED << typing, trial, env, alert_sound, now, recorded_data_chunks, audio_url, urlCount, liveUrls, revoked,
                  response, readers, load_resolver, promises, rt, stimulus_start_time,
                  recorder_start_time, display, stimulusVisible, alertOpacity,
                  observers, alertLog, stopLog, contLog, lastBlob, delivered,
                  clears, results >>

\* mutant of DurationTimer: the duration is counted from the start call
DurationTimerFromStartCall(a) == Timer("duration", startTime + trial.recording_duration, a)

\* setTimeout(() => {...}, trial.recording_duration) in the start listener
\* (lines 237-251)
DurationTimer(a) == Timer("duration", now + trial.recording_duration, a)

\* mutant of ResetChunks: the start listener leaves the buffer as it is
KeepChunks(chunks) == chunks

\* this.recorded_data_chunks.length = 0 (line 223)
ResetChunks(chunks) == << >>

\* start_event_handler (lines 221-252), with showDisplay and addButtonEvent
StartEvent ==
  /\ events # << >> /\ Head(events).type = "start" /\ listeners
  /\ LET e == Head(events) IN
     /\ events' = Tail(events)
     /\ recorded_data_chunks' = ResetChunks(recorded_data_chunks)
     /\ clears' = [clears EXCEPT ![e.att] = @ + 1]
     /\ delivered' = << >>
     /\ recorder_start_time' = now
     /\ display' = "stimulus"
     /\ stimulusVisible' = TRUE
     /\ alertOpacity' = 0
     /\ observers' = observers + 1
     /\ timers' = timers
          \cup (IF trial.stimulus_duration # Null
                THEN { Timer("hide", now + trial.stimulus_duration, e.att) } ELSE {})
          \cup (IF trial.recording_duration # Null THEN { DurationTimer(e.att) } ELSE {})
  /\ UNCHANGED << typing, pc, trial, env, alert_sound, asset_load, now, recorder_state, listeners, attempt, fragsSent,
                  audio_url, urlCount, liveUrls, revoked, response, readers, load_resolver,
                  promises, rt, stimulus_start_time, samplers, bufferLength, dataArray,
                  startTime, watch, alertLog, stopLog, contLog, lastBlob, results >>

\* mutant of data_available_handler: the fragment is put in front
data_available_prepend(chunks, data) ==
  IF data.size > 0 THEN << data >> \o chunks ELSE chunks

\* data_available_handler (lines 203-207)
data_available_handler(chunks, data) ==
  IF data.size > 0 THEN Append(chunks, data) ELSE chunks

DataAvailableEvent ==
  /\ events # << >> /\ Head(events).type = "dataavailable" /\ listeners
  /\ events' = Tail(events)
  /\ recorded_data_chunks' = data_available_handler(recorded_data_chunks, Head(events).frag)
  /\ delivered' = Append(delivered, Head(events).frag)
  /\ UNCHANGED << typing, pc, trial, env, alert_sound, asset_load, now, recorder_state, listeners, attempt, fragsSent,
                  audio_url, urlCount, liveUrls, revoked, response, readers, load_resolver,
                  promises, rt, stimulus_start_time, recorder_start_time, display,
                  stimulusVisible, alertOpacity, observers, timers, samplers,
                  bufferLength, dataArray, startTime, watch, alertLog, stopLog,
                  contLog, lastBlob, clears, results >>

\* stop_event_handler (lines 209-219) up to reader.readAsDataURL(data)
StopEvent ==
  /\ events # << >> /\ Head(events).type = "stop" /\ listeners
  /\ LET e == Head(events)
         data == Blob(recorded_data_chunks) IN
     /\ events' = Tail(events)
     /\ urlCount' = urlCount + 1
     /\ audio_url' = urlCount + 1
     /\ liveUrls' = liveUrls \cup { urlCount + 1 }
     /\ readers' = readers \cup { [att |-> e.att, data |-> data, url |-> urlCount + 1,
                                   state |-> "loading"] }
     /\ lastBlob' = [att |-> e.att, data |-> data, delivered |-> delivered]
  /\ UNCHANGED << typing, pc, trial, env, alert_sound, asset_load, now, recorder_state, listeners, attempt, fragsSent,
                  recorded_data_chunks, revoked, response, load_resolver, promises, rt,
                  stimulus_start_time, recorder_start_time, display, stimulusVisible,
                  alertOpacity, observers, timers, samplers, bufferLength, dataArray,
                  startTime, watch, alertLog, stopLog, contLog, delivered,
                  clears, results >>

\* a recorder event dispatched after endTrial removed the listeners (lines 376-378)
UnheardEvent ==
  /\ events # << >> /\ ~listeners
  /\ events' = Tail(events)
  /\ UNCHANGED << typing, pc, trial, env, alert_sound, asset_load, now, recorder_state, listeners, attempt, fragsSent,
                  recorded_data_chunks, audio_url, urlCount, liveUrls, revoked, response, readers,
                  load_resolver, promises, rt, stimulus_start_time, recorder_start_time,
                  display, stimulusVisible, alertOpacity, observers, timers, samplers,
                  bufferLength, dataArray, startTime, watch, alertLog, stopLog,
                  contLog, lastBlob, delivered, clears, results >>

\* mutant of Continuation: the playback review is shown whatever allow_playback
ContinuationToPlayback(resp) ==
  /\ showPlaybackControls
  /\ UNCHANGED << listeners, timers, liveUrls, revoked, results >>

\* the continuation of stopRecording().then (lines 191-197 and 242-248)
Continuation(resp) ==
  IF trial.allow_playback
  THEN /\ showPlaybackControls
       /\ UNCHANGED << listeners, timers, liveUrls, revoked, results >>
  ELSE endTrial(resp)

\* the reader's load listener (lines 213-217); resolving the promise runs its
\* continuation before any other task
ReaderLoad ==
  \E r \in { x \in readers : x.state = "loading" } :
    LET base64 == Base64Part(ReadAsDataURL(r.data))
        resp == [att |-> r.att, base64 |-> base64.base64]
        p == load_resolver IN
    /\ readers' = readers \ {r}
    /\ response' = resp
    /\ IF p # 0 /\ promises[p].state = "pending"
       THEN /\ promises' = [promises EXCEPT ![p].state = "resolved"]
            /\ contLog' = contLog \cup
                 { [att |-> promises[p].att, by |-> promises[p].by, resp |-> r.att] }
            /\ Continuation(resp)
       ELSE UNCHANGED << promises, contLog, listeners, timers, liveUrls, revoked,
                         results,
                         display, stimulusVisible, alertOpacity >>
    /\ UNCHANGED << typing, pc, trial, env, alert_sound, asset_load, now, recorder_state, events, attempt, fragsSent,
                    recorded_data_chunks, audio_url, urlCount, load_resolver, rt,
                    stimulus_start_time, recorder_start_time, observers, samplers,
                    bufferLength, dataArray, startTime, watch, alertLog,
                    stopLog, lastBlob, delivered, clears >>

\* a read fails: the reader fires error and loadend, for which the stop
\* listener registers nothing (lines 212-218)
ReaderError ==
  \E r \in { x \in readers : x.state = "loading" } :
    /\ env.encoding = "fails"
    /\ readers' = (readers \ {r}) \cup { [r EXCEPT !.state = "error"] }
    /\ UNCHANGED << typing, pc, trial, env, alert_sound, asset_load, now, recorder_state, events, listeners, attempt,
                    fragsSent, recorded_data_chunks, audio_url, urlCount, liveUrls,
                    revoked, response, load_resolver, promises, rt,
                    stimulus_start_time, recorder_start_time, display,
                    stimulusVisible, alertOpacity, observers, timers, samplers,
                    bufferLength, dataArray, startTime, watch, alertLog, stopLog,
                    contLog, lastBlob, delivered, clears, results >>

\* getAudioBuffer(trial.alert_sound) resolves (lines 118-127)
AssetLoaded ==
  /\ asset_load = "pending" /\ env.asset \in { "node", "element" }
  /\ asset_load' = "loaded"
  /\ alert_sound' = env.asset
  /\ UNCHANGED << typing, pc, trial, env, now, recorder_state, events, listeners, attempt,
                  fragsSent, recorded_data_chunks, audio_url, urlCount, liveUrls,
                  revoked, response, readers, load_resolver, promises, rt,
                  stimulus_start_time, recorder_start_time, display,
                  stimulusVisible, alertOpacity, observers, timers, samplers,
                  bufferLength, dataArray, startTime, watch, alertLog, stopLog,
                  contLog, lastBlob, delivered, clears, results >>

\* getAudioBuffer(trial.alert_sound) rejects: the error is logged (lines 128-133)
AssetFailed ==
  /\ asset_load = "pending" /\ env.asset = "fails"
  /\ asset_load' = "failed"
  /\ UNCHANGED << typing, pc, trial, env, alert_sound, now, recorder_state, events, listeners,
                  attempt, fragsSent, recorded_data_chunks, audio_url, urlCount,
                  liveUrls, revoked, response, readers, load_resolver, promises, rt,
                  stimulus_start_time, recorder_start_time, display,
                  stimulusVisible, alertOpacity, observers, timers, samplers,
                  bufferLength, dataArray, startTime, watch, alertLog, stopLog,
                  contLog, lastBlob, delivered, clears, results >>

\* mutant of DoneButtonShown: the button is rendered whatever the parameter
DoneButtonAlways == TRUE

\* if (trial.show_done_button) html += <button id="finish-trial"> (lines 156-158)
DoneButtonShown == trial.show_done_button

\* the done button's click listener (lines 188-198), attached when
\* querySelector finds the button (lines 186-187)
ClickDone ==
  /\ display = "stimulus" /\ DoneButtonShown
  /\ rt' = IF stimulus_start_time = Undefined THEN NaN ELSE now - stimulus_start_time
  /\ stopRecording("click", 0)
  /\ UNCHANGED << typing, pc, trial, env, alert_sound, asset_load, now, listeners, attempt, recorded_data_chunks, audio_url,
                  urlCount, liveUrls, revoked, response, readers, stimulus_start_time,
                  recorder_start_time, display, stimulusVisible, alertOpacity,
                  observers, timers, samplers, bufferLength, dataArray, startTime,
                  watch, alertLog, contLog, lastBlob, delivered, clears, results >>

\* the recording_duration timer callback (lines 238-250)
DurationTimerFire ==
  \E t \in timers :
    /\ t.kind = "duration" /\ Due(t)
    /\ timers' = timers \ {t}
    /\ IF recorder_state # "inactive"
       THEN stopRecording("timer", t.att)
       ELSE UNCHANGED << recorder_state, events, promises, load_resolver, stopLog,
                         fragsSent >>
    /\ UNCHANGED << typing, pc, trial, env, alert_sound, asset_load, now, listeners, attempt, recorded_data_chunks, audio_url,
                    urlCount, liveUrls, revoked, response, readers, rt, stimulus_start_time,
                    recorder_start_time, display, stimulusVisible, alertOpacity,
                    observers, samplers, bufferLength, dataArray, startTime, watch, alertLog, contLog, lastBlob, delivered, clears, results >>

\* mutant of HideTimerFire: the hide deadline also stops the recording
HideTimerFireStops ==
  \E t \in timers :
    /\ t.kind = "hide" /\ Due(t)
    /\ timers' = timers \ {t}
    /\ IF display = "stimulus"
       THEN stimulusVisible' = FALSE /\ alertOpacity' = 0
       ELSE UNCHANGED << stimulusVisible, alertOpacity >>
    /\ IF recorder_state # "inactive"
       THEN stopRecording("timer", t.att)
       ELSE UNCHANGED << recorder_state, events, promises, load_resolver, stopLog,
                         fragsSent >>
    /\ UNCHANGED << typing, pc, trial, env, alert_sound, asset_load, now, listeners, attempt,
                    recorded_data_chunks, audio_url, urlCount, liveUrls, revoked,
                    response, readers, rt, stimulus_start_time,
                    recorder_start_time, display, observers, samplers, bufferLength,
                    dataArray, startTime, watch, alertLog, contLog,
                    lastBlob, delivered, clears, results >>

\* the stimulus_duration timer callback: hideStimulus (lines 163-172)
HideTimerFire ==
  \E t \in timers :
    /\ t.kind = "hide" /\ Due(t)
    /\ timers' = timers \ {t}
    /\ IF display = "stimulus"
       THEN stimulusVisible' = FALSE /\ alertOpacity' = 0
       ELSE UNCHANGED << stimulusVisible, alertOpacity >>
    /\ UNCHANGED << typing, pc, trial, env, alert_sound, asset_load, now, recorder_state, events, listeners, attempt,
                    fragsSent, recorded_data_chunks, audio_url, urlCount, liveUrls, revoked,
                    response, readers, load_resolver, promises, rt, stimulus_start_time,
                    recorder_start_time, display, observers, samplers, bufferLength,
                    dataArray, startTime, watch, alertLog, stopLog, contLog,
                    lastBlob, delivered, clears, results >>

\* the poll timer callback: logAmplitude rescheduled at line 301
PollTimerFire ==
  \E t \in timers :
    /\ t.kind = "poll" /\ Due(t)
    /\ logAmplitude(t.att, timers \ {t}, startTime, bufferLength)
    /\ UNCHANGED << typing, pc, trial, env, alert_sound, asset_load, now, recorder_state, events, listeners, attempt,
                    fragsSent, recorded_data_chunks, audio_url, urlCount, liveUrls, revoked,
                    response, readers, load_resolver, promises, rt, stimulus_start_time,
                    recorder_start_time, display, stimulusVisible, alertOpacity,
                    observers, samplers, bufferLength, startTime, alertLog,
                    stopLog, contLog, lastBlob, delivered, clears, results >>

\* mutant of playAlertSound: the sound is started without the test at line 309
playAlertSoundUnguarded(sound) ==
  IF sound = "node" \/ sound = "element" THEN "played" ELSE "threw"

\* playAlertSound (lines 308-316): nothing without a sound; start() on an
\* AudioBufferSourceNode that was started before throws InvalidStateError
playAlertSound(sound) ==
  IF sound = "undefined" THEN "none"
  ELSE IF sound = "node_started" THEN "threw"
  ELSE "played"

\* the alert timer callback (lines 335-340): showAlertImage and playAlertSound
AlertTimerFire ==
  \E t \in timers :
    /\ t.kind = "alert" /\ Due(t)
    /\ timers' = timers \ {t}
    /\ alertOpacity' = IF display = "stimulus" THEN 1 ELSE alertOpacity
    /\ alertLog' = alertLog \cup
         { [w |-> t.att, t |-> now, cur |-> attempt, stopped |-> StoppedEarlier(t.att),
            sound |-> alert_sound, cue |-> playAlertSound(alert_sound)] }
    /\ alert_sound' = IF alert_sound = "node" THEN "node_started" ELSE alert_sound
    /\ UNCHANGED << typing, pc, trial, env, asset_load, now, recorder_state, events, listeners, attempt,
                    fragsSent, recorded_data_chunks, audio_url, urlCount, liveUrls, revoked,
                    response, readers, load_resolver, promises, rt, stimulus_start_time,
                    recorder_start_time, display, stimulusVisible, observers, samplers,
                    bufferLength, dataArray, startTime, watch, stopLog, contLog,
                    lastBlob, delivered, clears, results >>

\* the record-again button's click listener (lines 360-364)
ClickRecordAgain ==
  /\ display = "playback"
  /\ samplers <= env.attempts
  /\ recorder_state = "inactive" => attempt < env.attempts
  /\ revokeObjectURL(audio_url)
  /\ startRecording(timers)
  /\ UNCHANGED << typing, pc, trial, env, alert_sound, asset_load, now, listeners, recorded_data_chunks, audio_url, urlCount,
                  response, readers, load_resolver, promises, rt, stimulus_start_time,
                  recorder_start_time, display, stimulusVisible, alertOpacity,
                  observers, alertLog, stopLog, contLog, lastBlob, delivered,
                  clears, results >>

\* the continue button's click listener (lines 365-367)
ClickContinue ==
  /\ display = "playback"
  /\ endTrial(response)
  /\ UNCHANGED << typing, pc, trial, env, alert_sound, asset_load, now, recorder_state, events, attempt, fragsSent,
                  recorded_data_chunks, audio_url, urlCount, response, readers,
                  load_resolver, promises, rt, stimulus_start_time, recorder_start_time,
                  observers, samplers, bufferLength, dataArray, startTime, watch,
                  alertLog, stopLog, contLog, lastBlob, delivered, clears >>

\* the ResizeObserver callback (lines 143-147)
ObserverCallback ==
  /\ observers > 0
  /\ observers' = observers - 1
  /\ stimulus_start_time' = now
  /\ UNCHANGED << typing, pc, trial, env, alert_sound, asset_load, now, recorder_state, events, listeners, attempt, fragsSent,
                  recorded_data_chunks, audio_url, urlCount, liveUrls, revoked, response, readers,
                  load_resolver, promises, rt, recorder_start_time, display,
                  stimulusVisible, alertOpacity, timers, samplers, bufferLength,
                  dataArray, startTime, watch, alertLog, stopLog, contLog,
                  lastBlob, delivered, clears, results >>

(***************************************************************************)
(* Environment.                                                            *)
(***************************************************************************)
\* the device delivers a fragment while recording
DeviceData ==
  /\ recorder_state = "recording" /\ fragsSent < env.frags
  /\ \E size \in env.sizes :
       events' = Append(events, [type |-> "dataavailable", att |-> attempt,
                                 frag |-> [att |-> attempt, k |-> fragsSent + 1,
                                           size |-> size]])
  /\ fragsSent' = fragsSent + 1
  /\ UNCHANGED << typing, pc, trial, env, alert_sound, asset_load, now, recorder_state, listeners, attempt,
                  recorded_data_chunks, audio_url, urlCount, liveUrls, revoked, response, readers,
                  load_resolver, promises, rt, stimulus_start_time, recorder_start_time,
                  display, stimulusVisible, alertOpacity, observers, timers, samplers,
                  bufferLength, dataArray, startTime, watch, alertLog, stopLog,
                  contLog, lastBlob, delivered, clears, results >>

\* time passes, up to the next due timer; layout (the ResizeObserver callback)
\* takes no time
NextDue == CHOOSE d \in { t.due : t \in timers } : \A t \in timers : d <= t.due

AdvanceTime ==
  /\ pc = "running"
  /\ observers = 0
  /\ LET next == IF timers = {} THEN now + PollInterval ELSE NextDue IN
     /\ next > now /\ next <= MaxTime
     /\ now' = next
  /\ UNCHANGED << typing, pc, trial, env, alert_sound, asset_load, recorder_state, events, listeners, attempt, fragsSent,
                  recorded_data_chunks, audio_url, urlCount, liveUrls, revoked, response, readers,
                  load_resolver, promises, rt, stimulus_start_time, recorder_start_time,
                  display, stimulusVisible, alertOpacity, observers, timers, samplers,
                  bufferLength, dataArray, startTime, watch, alertLog, stopLog,
                  contLog, lastBlob, delivered, clears, results >>

(***************************************************************************)
(* The typing plugin: operators on the record of its closure variables.    *)
(***************************************************************************)
\* every variable of the audio plugin
audioVars == << pc, trial, env, alert_sound, asset_load, recorder_state, events, listeners,
                attempt, fragsSent, recorded_data_chunks, audio_url, urlCount, liveUrls,
                revoked, response, readers, load_resolver, promises, rt,
                stimulus_start_time, recorder_start_time, display, stimulusVisible,
                alertOpacity, observers, timers, samplers, bufferLength, dataArray,
                startTime, watch, alertLog, stopLog, contLog, lastBlob, delivered,
                clears, results >>

\* str.slice(0, -1)
SliceOffLast(str) == IF str = << >> THEN << >> ELSE SubSeq(str, 1, Len(str) - 1)

\* str.includes(sub)
Includes(str, sub) ==
  \E i \in 0..(Len(str) - Len(sub)) : SubSeq(str, i + 1, i + Len(sub)) = sub

\* the trigger test: trigger_list.some(trigger => buffer.includes(trigger))
\* (index.ts line 646), trigger_list.includes(buffer) (part_000 line 816)
IsTrigger(ty, buffer) ==
  IF ty.variant = "package"
  THEN \E trigger \in ty.trial.trigger_list : Includes(buffer, trigger)
  ELSE buffer \in ty.trial.trigger_list

\* eventTime = performance.now() - startTime (index.ts line 626),
\* eventTime = startTime - performance.now() (part_000 line 796)
EventTime(ty) ==
  IF ty.variant = "package" THEN now - ty.startTime ELSE ty.startTime - now

\* this.jsPsych.pluginAPI.setTimeout(callback, delay)
TypingSetTimeout(ty, kind, delay) ==
  [ty EXCEPT !.timers = @ \cup { [kind |-> kind, due |-> now + delay,
                                  id |-> ty.timerCount + 1] },
             !.timerCount = @ + 1]

\* mutant of cancelKeyboardResponse: the listener stays registered
keepKeyboardResponse(listener) == listener

\* this.jsPsych.pluginAPI.cancelKeyboardResponse(keyboardListener)
cancelKeyboardResponse(listener) == FALSE

\* end_trial (index.ts lines 553-580, part_000 lines 727-751); by names the
\* caller.  The record handed to finishTrial holds the values at the call.
end_trial(ty, by) ==
  LET ended == Append(ty.words, ty.buffer) IN
  [ty EXCEPT !.timers = clearAllTimeouts,
             !.keyboardListener = cancelKeyboardResponse(@),
             !.words = ended,
             !.pc = "ended",
             !.results = Append(@, [ responses |-> ty.responses,
                                     words |-> ended,
                                     wholebuffer |-> ty.wholebuffer,
                                     eventTime |-> ty.eventTime,
                                     elapsed |-> now - ty.startTime,
                                     by |-> by,
                                     at |-> now ])]

\* mutant of OnEnter: enter ends the trial whether or not a trigger was typed
OnEnterUntriggered(ty) ==
  IF ty.trial.trigger_end
  THEN TypingSetTimeout(ty, "end", ty.trial.correction_delay)
  ELSE end_trial(ty, "enter")

\* after_response, the enter key (index.ts lines 591-609)
OnEnter(ty) ==
  IF ty.trial.trigger_end
  THEN IF ty.triggered
       THEN TypingSetTimeout(ty, "end", ty.trial.correction_delay)
       ELSE TypingSetTimeout(ty, "colour", ty.trial.correction_delay)
  ELSE end_trial(ty, "enter")

\* after_response, the buffers (index.ts lines 611-638)
OnKey(ty, key) ==
  IF key \in { "shift", "meta", "enter" } THEN ty
  ELSE IF key = "backspace"
  THEN [ty EXCEPT !.buffer = SliceOffLast(@), !.wholebuffer = SliceOffLast(@)]
  ELSE IF key = " "
  THEN IF ty.trial.space_allowed
       THEN [ty EXCEPT !.words = Append(@, ty.buffer),
                       !.buffer = << >>,
                       !.eventTime = IF ty.triggered THEN EventTime(ty) ELSE @,
                       !.wholebuffer = Append(@, " ")]
       ELSE [ty EXCEPT !.buffer = Append(@, " "), !.wholebuffer = Append(@, " ")]
  ELSE [ty EXCEPT !.buffer = Append(@, key), !.wholebuffer = Append(@, key)]

\* after_response (index.ts lines 583-674, part_000 lines 754-841)
after_response(ty, key) ==
  LET pressed == [ty EXCEPT !.enterLog =
                    IF key = "enter"
                    THEN @ \cup { [n |-> Len(ty.responses) + 1, t |-> now,
                                   triggered |-> ty.triggered] }
                    ELSE @]
      entered == IF key = "enter" THEN OnEnter(pressed) ELSE pressed
      typed == OnKey(entered, key)
      stored == [typed EXCEPT !.responses =
                   Append(@, [key |-> key, rt |-> now - ty.startTime])]
  IN [stored EXCEPT !.triggered = IF IsTrigger(stored, stored.buffer) THEN TRUE ELSE @]

(***************************************************************************)
(* The typing plugin: actions.                                             *)
(***************************************************************************)
\* trial (index.ts lines 484-706): the keyboard listener and the timers
TypingTrial ==
  /\ typing.pc = "constructed"
  /\ LET started == [typing EXCEPT !.pc = "running",
                                   !.startTime = now,
                                   !.keyboardListener = (typing.trial.choices # "NO_KEYS")]
         hiding == IF typing.trial.stimulus_duration # Null
                   THEN TypingSetTimeout(started, "hide", typing.trial.stimulus_duration)
                   ELSE started
     IN typing' = IF typing.trial.trial_duration # Null
                  THEN TypingSetTimeout(hiding, "duration", typing.trial.trial_duration)
                  ELSE hiding
  /\ UNCHANGED << audioVars, now >>

\* a key press delivered to the keyboard listener
KeyPress ==
  \E key \in Keys :
    /\ typing.keyboardListener
    /\ Len(typing.responses) < MaxKeyPresses
    /\ typing' = after_response(typing, key)
    /\ UNCHANGED << audioVars, now >>

TypingDue(t) == t \in typing.timers /\ t.due <= now

\* the timer armed by enter after a trigger (index.ts lines 595-597)
TypingEndTimerFire ==
  \E t \in typing.timers :
    /\ t.kind = "end" /\ TypingDue(t)
    /\ typing' = end_trial([typing EXCEPT !.timers = @ \ {t}], "end_timer")
    /\ UNCHANGED << audioVars, now >>

\* the timer armed by enter before any trigger: ctx.fillStyle = 'black'
\* (index.ts lines 601-603)
TypingColourTimerFire ==
  \E t \in typing.timers :
    /\ t.kind = "colour" /\ TypingDue(t)
    /\ typing' = [typing EXCEPT !.timers = @ \ {t}]
    /\ UNCHANGED << audioVars, now >>

\* the stimulus_duration timer (index.ts lines 688-694)
TypingHideTimerFire ==
  \E t \in typing.timers :
    /\ t.kind = "hide" /\ TypingDue(t)
    /\ typing' = [typing EXCEPT !.timers = @ \ {t}, !.stimulusHidden = TRUE]
    /\ UNCHANGED << audioVars, now >>

\* the trial_duration timer (index.ts lines 697-700)
TypingDurationTimerFire ==
  \E t \in typing.timers :
    /\ t.kind = "duration" /\ TypingDue(t)
    /\ typing' = end_trial([typing EXCEPT !.timers = @ \ {t}], "duration")
    /\ UNCHANGED << audioVars, now >>

\* time passes during a typing trial, or before it, never beyond a due timer
TypingTick == 5

TypingAdvanceTime ==
  /\ typing.pc # "ended"
  /\ pc = "constructed"
  /\ \A t \in typing.timers : t.due > now
  /\ LET next == IF \E t \in typing.timers : t.due < now + TypingTick
                 THEN CHOOSE d \in { t.due : t \in typing.timers } :
                        \A t \in typing.timers : d <= t.due
                 ELSE now + TypingTick
     IN /\ next <= MaxTime
        /\ now' = next
  /\ UNCHANGED << audioVars, typing >>

Next ==
  \/ Trial
  \/ StartEvent
  \/ DataAvailableEvent
  \/ StopEvent
  \/ UnheardEvent
  \/ ReaderLoad
  \/ ClickDone
  \/ DurationTimerFire
  \/ HideTimerFire
  \/ PollTimerFire
  \/ AlertTimerFire
  \/ ClickRecordAgain
  \/ ClickContinue
  \/ ObserverCallback
  \/ DeviceData
  \/ ReaderError
  \/ AssetLoaded
  \/ AssetFailed
  \/ AdvanceTime
  \/ TypingTrial
  \/ KeyPress
  \/ TypingEndTimerFire
  \/ TypingColourTimerFire
  \/ TypingHideTimerFire
  \/ TypingDurationTimerFire
  \/ TypingAdvanceTime

Spec == Init /\ [][Next]_vars

(***************************************************************************)
(* Slices of the model.  Spec is the whole model; each slice fixes the     *)
(* part of the environment that the properties checked under it do not     *)
(* depend on, and leaves out the actions that cannot fire there.           *)
(***************************************************************************)
\* The recording pipeline: a silent microphone (the watchers poll and never
\* detect an onset), fragments of every size, repeated done-button clicks.
InitRecorder ==
  /\ typing = TypingNotRun
  /\ Init
  /\ env = [windows |-> Quiet, sizes |-> 0..MaxFragSize, frags |-> MaxFrags,
            idle |-> MaxIdleStops, attempts |-> MaxAttempts - 1, asset |-> "never",
            device |-> "ok", encoding |-> "ok"]
  /\ trial.stimulus_duration = Null
  /\ trial.recording_duration # PollInterval
  /\ ~trial.use_voice_key
  /\ ~trial.save_audio_url

NextRecorder ==
  \/ Trial
  \/ StartEvent
  \/ DataAvailableEvent
  \/ StopEvent
  \/ UnheardEvent
  \/ ReaderLoad
  \/ ClickDone
  \/ DurationTimerFire
  \/ PollTimerFire
  \/ ClickRecordAgain
  \/ ClickContinue
  \/ ObserverCallback
  \/ DeviceData
  \/ AdvanceTime

SpecRecorder == InitRecorder /\ [][NextRecorder]_vars

\* Re-recording: the participant may start MaxAttempts recordings; the trial
\* allows playback, shows the done button and sets a recording duration.
InitRerecord ==
  /\ typing = TypingNotRun
  /\ Init
  /\ env = [windows |-> Quiet, sizes |-> {1}, frags |-> 0, idle |-> 0,
            attempts |-> MaxAttempts, asset |-> "never",
            device |-> "ok", encoding |-> "ok"]
  /\ trial.allow_playback /\ trial.show_done_button
  /\ trial.recording_duration = 2 * PollInterval
  /\ trial.stimulus_duration = Null
  /\ ~trial.use_voice_key
  /\ ~trial.save_audio_url

NextRerecord ==
  \/ Trial
  \/ StartEvent
  \/ DataAvailableEvent
  \/ StopEvent
  \/ UnheardEvent
  \/ ReaderLoad
  \/ ClickDone
  \/ DurationTimerFire
  \/ PollTimerFire
  \/ ClickRecordAgain
  \/ ClickContinue
  \/ ObserverCallback
  \/ AdvanceTime

SpecRerecord == InitRerecord /\ [][NextRerecord]_vars

\* The voice key: every microphone signal, constant or changing; the device
\* delivers one non-empty fragment per attempt and the done button is clicked
\* only while recording.
InitVoiceKey ==
  /\ typing = TypingNotRun
  /\ Init
  /\ env.sizes = {1} /\ env.frags = 0 /\ env.idle = 0
  /\ env.attempts = MaxAttempts - 1
  /\ env.device = "ok" /\ env.encoding = "ok" /\ env.asset = "never"
  /\ trial.recording_duration # PollInterval
  /\ trial.use_voice_key
  /\ ~trial.save_audio_url

NextVoiceKey ==
  \/ Trial
  \/ StartEvent
  \/ DataAvailableEvent
  \/ StopEvent
  \/ UnheardEvent
  \/ ReaderLoad
  \/ ClickDone
  \/ DurationTimerFire
  \/ HideTimerFire
  \/ PollTimerFire
  \/ AlertTimerFire
  \/ ClickRecordAgain
  \/ ClickContinue
  \/ ObserverCallback
  \/ AdvanceTime

SpecVoiceKey == InitVoiceKey /\ [][NextVoiceKey]_vars

\* Automatic stop: a recording duration of one poll interval, so that a start
\* event handled one interval after the start call still sees its timer fire.
InitAutoStop ==
  /\ typing = TypingNotRun
  /\ Init
  /\ env = [windows |-> Quiet, sizes |-> {1}, frags |-> 0, idle |-> 0,
            attempts |-> MaxAttempts - 1, asset |-> "never",
            device |-> "ok", encoding |-> "ok"]
  /\ trial.recording_duration = PollInterval
  /\ trial.stimulus_duration = Null
  /\ ~trial.use_voice_key
  /\ ~trial.save_audio_url

NextAutoStop ==
  \/ Trial
  \/ StartEvent
  \/ DataAvailableEvent
  \/ StopEvent
  \/ UnheardEvent
  \/ ReaderLoad
  \/ ClickDone
  \/ DurationTimerFire
  \/ PollTimerFire
  \/ ClickRecordAgain
  \/ ClickContinue
  \/ ObserverCallback
  \/ AdvanceTime

SpecAutoStop == InitAutoStop /\ [][NextAutoStop]_vars

\* Object URLs: playback with re-recording, the URL kept in the result or not.
InitHandles ==
  /\ typing = TypingNotRun
  /\ Init
  /\ env = [windows |-> Quiet, sizes |-> {1}, frags |-> 0, idle |-> 0,
            attempts |-> MaxAttempts - 1, asset |-> "never",
            device |-> "ok", encoding |-> "ok"]
  /\ trial.allow_playback /\ trial.show_done_button
  /\ trial.recording_duration # PollInterval
  /\ trial.stimulus_duration = Null
  /\ ~trial.use_voice_key

NextHandles ==
  \/ Trial
  \/ StartEvent
  \/ DataAvailableEvent
  \/ StopEvent
  \/ UnheardEvent
  \/ ReaderLoad
  \/ ClickDone
  \/ DurationTimerFire
  \/ PollTimerFire
  \/ ClickRecordAgain
  \/ ClickContinue
  \/ ObserverCallback
  \/ AdvanceTime

SpecHandles == InitHandles /\ [][NextHandles]_vars

\* Failures: the microphone may be unusable and reads of the recorded blob
\* may fail.
InitFailures ==
  /\ typing = TypingNotRun
  /\ Init
  /\ env.windows = Quiet /\ env.sizes = {1} /\ env.frags = 0 /\ env.idle = 0
  /\ env.attempts = MaxAttempts - 1
  /\ env.device = "unavailable" \/ env.encoding = "fails"
  /\ env.asset = "never"
  /\ trial.recording_duration # PollInterval
  /\ trial.stimulus_duration = Null
  /\ ~trial.use_voice_key
  /\ ~trial.save_audio_url

NextFailures ==
  \/ Trial
  \/ StartEvent
  \/ DataAvailableEvent
  \/ StopEvent
  \/ UnheardEvent
  \/ ReaderLoad
  \/ ReaderError
  \/ ClickDone
  \/ DurationTimerFire
  \/ PollTimerFire
  \/ ClickRecordAgain
  \/ ClickContinue
  \/ ObserverCallback
  \/ AdvanceTime

SpecFailures == InitFailures /\ [][NextFailures]_vars

\* The alert assets: a loud microphone, so that every watcher arms its alert,
\* and every outcome of the alert-sound load.
InitAssets ==
  /\ typing = TypingNotRun
  /\ Init
  /\ env.windows = { MixedWindow } /\ env.sizes = {1} /\ env.frags = 0 /\ env.idle = 0
  /\ env.attempts = MaxAttempts - 1
  /\ env.device = "ok" /\ env.encoding = "ok"
  /\ trial.recording_duration # PollInterval
  /\ trial.stimulus_duration = Null
  /\ trial.use_voice_key
  /\ ~trial.save_audio_url

NextAssets ==
  \/ Trial
  \/ AssetLoaded
  \/ AssetFailed
  \/ StartEvent
  \/ DataAvailableEvent
  \/ StopEvent
  \/ UnheardEvent
  \/ ReaderLoad
  \/ ClickDone
  \/ DurationTimerFire
  \/ AlertTimerFire
  \/ ClickRecordAgain
  \/ ClickContinue
  \/ ObserverCallback
  \/ AdvanceTime

SpecAssets == InitAssets /\ [][NextAssets]_vars

\* Unattended trials: a recording duration, no playback review, a device that
\* confirms the start, delivers its events and encodes.  The browser's event
\* loop runs every queued task: the call of trial(), recorder events, reader
\* loads, layout callbacks and due timers; time passes.  The participant and
\* the fragments the device delivers while recording are under no obligation.
InitUnattended ==
  /\ typing = TypingNotRun
  /\ Init
  /\ env = [windows |-> Quiet, sizes |-> 0..MaxFragSize, frags |-> MaxFrags, idle |-> 0,
            attempts |-> MaxAttempts - 1, asset |-> "never",
            device |-> "ok", encoding |-> "ok"]
  /\ trial.recording_duration # Null
  /\ ~trial.allow_playback
  /\ trial.stimulus_duration = Null
  /\ ~trial.use_voice_key

NextUnattended ==
  \/ Trial
  \/ StartEvent
  \/ DataAvailableEvent
  \/ StopEvent
  \/ ReaderLoad
  \/ ClickDone
  \/ DurationTimerFire
  \/ PollTimerFire
  \/ ObserverCallback
  \/ DeviceData
  \/ AdvanceTime

EventLoopFairness ==
  /\ WF_vars(Trial)
  /\ WF_vars(StartEvent)
  /\ WF_vars(DataAvailableEvent)
  /\ WF_vars(StopEvent)
  /\ WF_vars(ReaderLoad)
  /\ WF_vars(DurationTimerFire)
  /\ WF_vars(PollTimerFire)
  /\ WF_vars(ObserverCallback)
  /\ WF_vars(AdvanceTime)

SpecUnattended == InitUnattended /\ [][NextUnattended]_vars /\ EventLoopFairness

\* The typing plugin alone: both variants of the source, every parameter
\* but stimulus_duration; the audio plugin is not run.
InitTyping ==
  /\ trial = [ allow_playback |-> FALSE, show_done_button |-> TRUE,
               save_audio_url |-> FALSE, use_voice_key |-> FALSE,
               recording_duration |-> Null, stimulus_duration |-> Null,
               amplitude_threshold |-> [n |-> 1, d |-> 2], timer_duration |-> 5 ]
  /\ env = [windows |-> Quiet, sizes |-> {1}, frags |-> 0, idle |-> 0,
            attempts |-> MaxAttempts - 1, asset |-> "never",
            device |-> "ok", encoding |-> "ok"]
  /\ Init
  /\ typing.trial.stimulus_duration = Null

NextTyping ==
  \/ TypingTrial
  \/ KeyPress
  \/ TypingEndTimerFire
  \/ TypingColourTimerFire
  \/ TypingDurationTimerFire
  \/ TypingAdvanceTime

SpecTyping == InitTyping /\ [][NextTyping]_vars

(***************************************************************************)
(* Properties.                                                             *)
(***************************************************************************)

\* C1: every continuation of stopRecording (showPlaybackControls or endTrial)
\* runs after the stop event of the attempt it stopped has been handled, with
\* the response encoded from that attempt's chunks.
C1_ContinuationAfterEncoding ==
  \A c \in contLog : c.resp = c.att

\* C2: while any one attempt is the current attempt, the alert callback runs
\* at most once.
C2_AlertAtMostOncePerAttempt ==
  \A a \in Attempts : Cardinality({ l \in alertLog : l.cur = a }) <= 1

\* C3: an alert callback never runs at a time later than the stop request of
\* the attempt whose watcher armed it.
C3_NoAlertAfterAttemptEnd ==
  \A l \in alertLog : ~l.stopped

\* C4: once a stop has been requested for an attempt, no timer of that
\* attempt (hide, duration, poll, alert) is pending.
C4_TimersCancelledAtStop ==
  \A a \in Attempts : StopRequested(a) => \A t \in timers : t.att # a

\* C5: the recording-duration timer of an attempt that was stopped by the
\* done button before the timer's expiry never issues a stop request.
C5_StaleDurationTimerNeverStops ==
  \A s \in stopLog :
    s.by = "timer" =>
      ~ \E m \in stopLog : m.att = s.armed /\ m.by = "click" /\ m.t < s.t

\* C6: the payload built at a stop event holds only bytes of the attempt that
\* was stopped, and the chunk buffer is cleared exactly once per attempt, by
\* the start listener, before that attempt's payload is built.
C6_RerecordDiscardsPriorChunks ==
  /\ \A i \in DOMAIN lastBlob.data : lastBlob.data[i][1] = lastBlob.att
  /\ \A a \in Attempts : clears[a] <= 1
  /\ lastBlob.att # 0 => clears[lastBlob.att] = 1

\* a second attempt's payload was built after a first attempt that had bytes
C6_Witness ==
  /\ lastBlob.att = 2 /\ lastBlob.data # << >>
  /\ response.att = 1 /\ response.base64 # << >>

\* the bytes of a sequence of fragments, built from the last fragment backwards
RECURSIVE Concatenation(_)
Concatenation(frags) ==
  IF Len(frags) = 0 THEN << >>
  ELSE LET last == frags[Len(frags)] IN
       Concatenation(SubSeq(frags, 1, Len(frags) - 1))
         \o [i \in 1..last.size |-> << last.att, last.k >>]

RECURSIVE TotalSize(_)
TotalSize(frags) ==
  IF frags = << >> THEN 0 ELSE Head(frags).size + TotalSize(Tail(frags))

\* C7: the payload built at a stop event is the concatenation, in delivery
\* order, of the fragments delivered since the attempt's start event; its
\* length is the sum of their sizes; no zero-length fragment is buffered.
C7_PayloadIsConcatenation ==
  /\ lastBlob.data = Concatenation(lastBlob.delivered)
  /\ Len(lastBlob.data) = TotalSize(lastBlob.delivered)
  /\ \A i \in DOMAIN recorded_data_chunks : recorded_data_chunks[i].size > 0

\* a payload was built from two non-empty fragments
C7_Witness ==
  /\ Len(lastBlob.delivered) = 2
  /\ \A i \in 1..2 : lastBlob.delivered[i].size > 0
  /\ Len(lastBlob.data) = TotalSize(lastBlob.delivered)

\* the energy of a window: the sum of its squared deviations from 128
RECURSIVE Energy(_)
Energy(win) ==
  IF win = << >> THEN 0
  ELSE (Head(win) - 128) * (Head(win) - 128) + Energy(Tail(win))

\* RMS amplitude of win compared with the trial's threshold n/d
Above(win) ==
  Energy(win) * trial.amplitude_threshold.d * trial.amplitude_threshold.d
    > trial.amplitude_threshold.n * trial.amplitude_threshold.n * 128 * 128 * Len(win)
AtThreshold(win) ==
  Energy(win) * trial.amplitude_threshold.d * trial.amplitude_threshold.d
    = trial.amplitude_threshold.n * trial.amplitude_threshold.n * 128 * 128 * Len(win)

\* C8: a watcher that is still polling has not sampled an amplitude above the
\* threshold at its last tick; a resolved watcher resolved on an amplitude
\* strictly above the threshold, has no further poll scheduled and has armed
\* at most one alert; under a constant signal above the threshold every
\* watcher resolves at its first tick, within the deadline.
C8_OneShotDetector ==
  \A w \in Attempts :
    /\ watch[w].status = "polling" => ~Above(watch[w].win)
    /\ watch[w].status = "resolved" =>
         /\ Above(watch[w].win)
         /\ ~ \E t \in timers : t.kind = "poll" /\ t.att = w
         /\ Cardinality({ t \in timers : t.kind = "alert" /\ t.att = w })
              + Cardinality({ l \in alertLog : l.w = w }) <= 1
    /\ ((\A sig \in env.windows : Above(sig)) /\ watch[w].status # "none") =>
         /\ watch[w].status = "resolved"
         /\ watch[w].onset = watch[w].start
         /\ watch[w].onset - watch[w].start <= WatcherDeadline

\* one watcher resolved after polling below the threshold, while another polls
\* on an amplitude equal to the threshold
C8_Witness ==
  \E w1, w2 \in Attempts :
    /\ watch[w1].status = "resolved" /\ watch[w1].onset > watch[w1].start
    /\ watch[w2].status = "polling" /\ AtThreshold(watch[w2].win)

\* C9: a watcher does not schedule a further poll at a tick at which the time
\* elapsed since its start exceeds the deadline.
C9_WatcherTimesOut ==
  \A t \in timers :
    t.kind = "poll" => (t.due - PollInterval) - watch[t.att].start <= WatcherDeadline

\* C10: every alert callback runs exactly timer_duration after the onset of
\* its watcher, and once that time has passed with no endTrial having cleared
\* the timers the callback has run.
C10_AlertAfterTimerDuration ==
  /\ \A l \in alertLog : l.t = watch[l.w].onset + trial.timer_duration
  /\ \A w \in Attempts :
       ( /\ watch[w].status = "resolved"
         /\ now > watch[w].onset + trial.timer_duration
         /\ results = << >> )
       => \E l \in alertLog : l.w = w

\* an alert ran for an onset detected after the first tick, while its attempt
\* was still recording
C10_Witness ==
  \E l \in alertLog :
    /\ watch[l.w].onset > watch[l.w].start
    /\ ~l.stopped
    /\ results = << >>

\* C11: in every emitted result whose final attempt was stopped by the done
\* button or by its own recording-duration timer, rt is non-null exactly when
\* that stop was the done-button click.
C11_RtIffManualStop ==
  \A i \in DOMAIN results : \A s \in stopLog :
    (s.att = results[i].att /\ s.armed \in {0, s.att})
      => ((results[i].rt # Null) <=> (s.by = "click"))

\* C13: at no time do poll loops of two watchers run side by side.
C13_OnePollLoop ==
  Cardinality({ t.att : t \in { u \in timers : u.kind = "poll" } }) <= 1

\* the samplers attached to the recorder's stream: every one created, since
\* nothing disconnects a source or closes an AudioContext
AttachedSamplers == samplers

\* C14: at most one sampler is attached to the device stream at any time, and
\* none once the trial has finished.
C14_OneSamplerAttached ==
  /\ AttachedSamplers <= 1
  /\ results # << >> => AttachedSamplers = 0

\* C19: no promise returned by stopRecording is left pending without its
\* resolver: a pending promise is the one this.load_resolver resolves.
C19_NoOrphanedStopPromise ==
  \A i \in DOMAIN promises : promises[i].state = "pending" => load_resolver = i

\* C12: as long as the done button has never been clicked (rt is null), every
\* stop is made by the stopped attempt's own duration timer, exactly
\* recording_duration after that attempt's start event was handled; a
\* confirmed attempt is never recording later than that; every result has a
\* null rt.
C12_AutoStopAtDuration ==
  rt = Null =>
    /\ \A s \in stopLog :
         /\ s.by = "timer" /\ s.armed = s.att
         /\ s.t = s.confirmed + trial.recording_duration
    /\ (recorder_state = "recording" /\ ConfirmedAt(attempt) # Undefined)
         => now <= ConfirmedAt(attempt) + trial.recording_duration
    /\ \A i \in DOMAIN results : results[i].rt = Null

\* a trial finished without a click, after an automatic stop of an attempt
\* whose start event was handled later than its start call
C12_Witness ==
  /\ rt = Null /\ results # << >>
  /\ \E s \in stopLog : s.by = "timer" /\ s.confirmed > watch[s.att].start

\* C15: no object URL is revoked twice, and no revoked URL is placed in a
\* trial result.
C15_HandleReleasedOnce ==
  /\ \A i, j \in DOMAIN revoked : i # j => revoked[i] # revoked[j]
  /\ \A i \in DOMAIN results : \A j \in DOMAIN revoked :
       results[i].audio_url # revoked[j]

\* C16: once a result has been emitted, the object URLs still unreleased are
\* none when save_audio_url is false, and exactly the one of the final
\* attempt, which is the result's audio_url, when it is true; the result has
\* an audio_url exactly when save_audio_url is true.
C16_HandlesAtFinish ==
  \A i \in DOMAIN results :
    /\ (results[i].audio_url # Undefined) <=> trial.save_audio_url
    /\ liveUrls = IF trial.save_audio_url THEN { results[i].audio_url } ELSE {}
    /\ trial.save_audio_url => lastBlob.att = results[i].att

\* C17: when starting the recorder fails, the attempt is ended: the plugin
\* is not left listening for a start event that cannot come, and no result
\* is emitted.
C17_DeviceFailureEndsAttempt ==
  pc = "threw" => (~listeners /\ results = << >>)

\* C18: when reading the recorded blob fails, the promise returned by the
\* stopRecording call of that attempt is rejected.
C18_EncodingFailureRejects ==
  \A r \in readers :
    r.state = "error" =>
      \E i \in DOMAIN promises : promises[i].att = r.att /\ promises[i].state = "rejected"

\* C20: once trial() has run, a recording has been started whatever the state
\* of the alert-sound load, and an alert callback that finds no loaded sound
\* plays nothing and raises no error.
C20_AssetsBestEffort ==
  /\ pc = "running" => attempt >= 1
  /\ \A l \in alertLog : l.sound = "undefined" => l.cue = "none"

\* a trial finished after the alert-sound load had failed, and an alert
\* callback ran without a sound
C20_Witness ==
  /\ results # << >>
  /\ asset_load = "failed"
  /\ \E l \in alertLog : l.sound = "undefined"

\* C21: with use_voice_key false no watcher is launched, no amplitude poll is
\* pending or has sampled the microphone, and no alert is armed or has run.
C21_VoiceKeyGated ==
  ~trial.use_voice_key =>
    /\ \A w \in Attempts : watch[w].status = "none"
    /\ \A t \in timers : t.kind \notin { "poll", "alert" }
    /\ alertLog = {}

\* C22: with show_done_button false and recording_duration null no result is
\* ever emitted, no stop is ever requested and the playback review is never
\* shown.
C22_NoWayToFinish ==
  (~trial.show_done_button /\ trial.recording_duration = Null) =>
    /\ results = << >>
    /\ stopLog = {} /\ promises = << >>
    /\ display # "playback" /\ display # "cleared"

\* such a trial at the latest time explored: the start event handled, the
\* stimulus laid out, the recorder still recording
C22_Witness ==
  /\ ~trial.show_done_button /\ trial.recording_duration = Null
  /\ now = MaxTime
  /\ recorder_state = "recording" /\ clears[1] = 1
  /\ stimulus_start_time # Undefined

\* the start event was handled early enough for the recording duration to
\* elapse within the time explored
ConfirmedWithinHorizon ==
  /\ clears[1] = 1
  /\ recorder_start_time + trial.recording_duration <= MaxTime

\* C23: with a recording duration and no playback review, the start of every
\* trial is eventually confirmed, and every trial whose start was confirmed
\* eventually hands a result to finishTrial, whether or not the participant
\* clicks.
C23_UnattendedTrialFinishes ==
  /\ <>(clears[1] = 1)
  /\ ConfirmedWithinHorizon ~> (results # << >>)

\* a trial finished with no click, its start confirmed one poll interval
\* after the start call
C23_Witness ==
  /\ results # << >> /\ rt = Null /\ stopLog # {}
  /\ recorder_start_time = PollInterval
  /\ results[1].response.att = 1

\* C24: every emitted result has an estimated_stimulus_onset computed from two
\* captured timestamps of the final attempt: it is a number, and it is not
\* negative, the stimulus of an attempt being laid out no earlier than the
\* attempt's start event is handled.
C24_OnsetFromFinalAttempt ==
  \A i \in DOMAIN results :
    /\ results[i].estimated_stimulus_onset # NaN
    /\ results[i].estimated_stimulus_onset >= 0

\* C25: the playback review is on screen only with allow_playback true and
\* after a stop promise has resolved; with allow_playback false a resolved
\* stop has emitted the result; the response of every result is the payload
\* of the attempt that was current when the trial finished, never that of an
\* attempt discarded by 'record again'.
C25_PlaybackReview ==
  /\ display = "playback" => (trial.allow_playback /\ contLog # {})
  /\ (~trial.allow_playback /\ contLog # {}) => results # << >>
  /\ \A i \in DOMAIN results : results[i].response.att = results[i].att

\* C26: every stopRecording call that went through was made on a recording
\* recorder, at most one per attempt, and rt is written only by a click that
\* stopped a recording.
C26_StopOnlyWhileRecording ==
  /\ Len(promises) = Cardinality(stopLog)
  /\ \A a \in Attempts : Cardinality({ i \in DOMAIN promises : promises[i].att = a }) <= 1
  /\ rt # Null => \E s \in stopLog : s.by = "click"

\* C27: every startRecording call found the recorder inactive, so that each
\* call started one capture; and the captures started are at most one for
\* trial() plus one per playback review entered.
C27_StartOnlyWhileInactive ==
  /\ samplers = attempt
  /\ attempt <= 1 + Cardinality(contLog)

Silence == ConstWindow(ByteCenter)

\* thresholds from 1/256, below the smallest amplitude a byte can show, to 1
PositiveThresholds == { [n |-> 1, d |-> 256], [n |-> 1, d |-> 10], [n |-> 1, d |-> 2],
                        [n |-> 1, d |-> 1] }

\* C30: a window without samples has amplitude 0 and exceeds no positive
\* threshold, and neither does a window of length 0; a watcher whose last
\* poll read a window without samples has recorded no onset, has not been
\* rejected, and polls again as long as the trial runs.
C30_NoSamplesPollsOn ==
  /\ SumSq(Silence, FrequencyBinCount) = 0
  /\ \A thr \in PositiveThresholds :
       /\ ~AmplitudeExceeds(Silence, FrequencyBinCount, thr)
       /\ ~AmplitudeExceeds(<< >>, 0, thr)
  /\ \A w \in Attempts :
       (watch[w].status # "none" /\ watch[w].win = Silence) =>
         /\ watch[w].status = "polling"
         /\ watch[w].onset = Undefined
         /\ results = << >> => \E t \in timers : t.kind = "poll" /\ t.att = w

\* a watcher whose first poll, made when recording was started, read no
\* samples and which is polling on silence one interval later, while the
\* microphone may also yield loud windows
C30_Witness ==
  /\ env.windows = Signals
  /\ \E w \in Attempts :
       /\ watch[w].status = "polling" /\ watch[w].win = Silence
       /\ now > watch[w].start
       /\ \E t \in timers : t.kind = "poll" /\ t.att = w

\* a step in which a hide timer leaves the pending timers while the trial goes
\* on: the hide callback ran (endTrial, the only other step that removes a
\* timer of this kind, emits a result)
HideCallbackRan ==
  /\ \E t \in timers : t.kind = "hide" /\ t \notin timers'
  /\ results' = results

\* C31: the step of a stimulus_duration timer hides the stimulus and the alert
\* image when the stimulus is on screen, and leaves unchanged the recorder
\* state, the recorder's event queue, the chunk buffer, rt, the stop requests
\* and their promises, the watchers and every pending timer of another kind.
C31_HideIndependentOfRecording ==
  [][ HideCallbackRan =>
        /\ display = "stimulus" => (~stimulusVisible' /\ alertOpacity' = 0)
        /\ UNCHANGED << recorder_state, events, recorded_data_chunks, rt, stopLog,
                        promises, load_resolver, watch, attempt, display >>
        /\ { t \in timers' : t.kind # "hide" } = { t \in timers : t.kind # "hide" }
    ]_vars

\* the stimulus was hidden by its timer while the attempt is still recording,
\* its duration timer and its watcher's poll still pending
C31_Witness ==
  /\ display = "stimulus" /\ ~stimulusVisible
  /\ recorder_state = "recording" /\ stopLog = {}
  /\ now = trial.stimulus_duration
  /\ \E t \in timers : t.kind = "duration"
  /\ \E t \in timers : t.kind = "poll"

\* C32: in both variants of the typing plugin an eventTime that was recorded
\* is a time elapsed since the start of the trial: it is not negative and not
\* later than the present.
C32_EventTimeElapsed ==
  typing.eventTime # Undefined =>
    /\ 0 <= typing.eventTime
    /\ typing.eventTime <= now - typing.startTime

\* C33: finishTrial of the typing plugin is called at most once; once it has
\* been called no timer is pending and no keyboard listener is registered,
\* and nothing typed is processed any more: words and wholebuffer are those
\* handed to finishTrial, and responses holds beyond them only the enter
\* press whose handler called end_trial.
C33_TypingFinishesOnce ==
  /\ Len(typing.results) <= 1
  /\ typing.pc = "ended" <=> typing.results # << >>
  /\ typing.results # << >> =>
       LET data == typing.results[1] IN
       /\ typing.timers = {}
       /\ ~typing.keyboardListener
       /\ typing.words = data.words
       /\ typing.wholebuffer = data.wholebuffer
       /\ typing.responses =
            IF data.by = "enter"
            THEN Append(data.responses, [key |-> "enter", rt |-> data.elapsed])
            ELSE data.responses

\* the trial was ended by a correction_delay timer while a second such timer
\* and the trial_duration timer were due at the same time
C33_Witness ==
  /\ typing.results # << >>
  /\ typing.results[1].by = "end_timer"
  /\ Cardinality({ e \in typing.enterLog : e.triggered }) >= 2
  /\ typing.trial.trial_duration = typing.results[1].elapsed
  /\ \A e \in typing.enterLog :
       e.t + typing.trial.correction_delay = typing.results[1].at

\* the enter presses made after a trigger had been typed
TriggeredEnters == { e \in typing.enterLog : e.triggered }

\* the first of them
FirstTriggeredEnter ==
  CHOOSE e \in TriggeredEnters : \A f \in TriggeredEnters : e.n <= f.n

\* C34: with trigger_end, the trial is never ended by an enter press itself
\* and a timer that ends it is pending only correction_delay after an enter
\* press made once a trigger had been typed; from the first such press the
\* trial runs until exactly correction_delay later unless trial_duration ends
\* it before.  Without trigger_end the first enter press ends the trial at
\* once.  The triggered flag never reverts to false.
C34_EnterEndsAfterTrigger ==
  /\ [](typing.trial.trigger_end =>
         /\ \A t \in typing.timers : t.kind = "end" =>
              \E e \in TriggeredEnters : t.due = e.t + typing.trial.correction_delay
         /\ typing.results # << >> =>
              /\ typing.results[1].by \in { "end_timer", "duration" }
              /\ typing.results[1].by = "end_timer" =>
                   /\ TriggeredEnters # {}
                   /\ typing.results[1].at =
                        FirstTriggeredEnter.t + typing.trial.correction_delay
         /\ TriggeredEnters # {} =>
              /\ now <= FirstTriggeredEnter.t + typing.trial.correction_delay
              /\ typing.pc = "running" =>
                   \E t \in typing.timers :
                     /\ t.kind = "end"
                     /\ t.due = FirstTriggeredEnter.t + typing.trial.correction_delay
              /\ now = FirstTriggeredEnter.t + typing.trial.correction_delay =>
                   \/ typing.pc = "ended"
                   \/ ENABLED TypingEndTimerFire)
  /\ [](~typing.trial.trigger_end =>
         \A e \in typing.enterLog :
           /\ typing.results # << >>
           /\ typing.results[1].by = "enter"
           /\ typing.results[1].at = e.t
           /\ Len(typing.results[1].responses) = e.n - 1)
  /\ [][typing.triggered => typing.triggered']_vars

\* with trigger_end, enter was pressed before any trigger and the trial went
\* on; it was pressed again after a trigger and the trial ended
\* correction_delay after that press
C34_Witness ==
  /\ typing.trial.trigger_end
  /\ TriggeredEnters # {}
  /\ \E e \in typing.enterLog : ~e.triggered /\ e.t < FirstTriggeredEnter.t
  /\ typing.results # << >>
  /\ typing.results[1].by = "end_timer"
  /\ typing.results[1].at = FirstTriggeredEnter.t + typing.trial.correction_delay

\* words.join(' ')
RECURSIVE JoinWords(_)
JoinWords(ws) ==
  IF ws = << >> THEN << >>
  ELSE IF Len(ws) = 1 THEN ws[1]
  ELSE ws[1] \o << " " >> \o JoinWords(Tail(ws))

\* only characters, spaces and backspaces were typed before the trial ended
OnlyText(data) ==
  \A i \in 1..Len(data.responses) : data.responses[i].key \in { "a", " ", "backspace" }

\* C35: with space_allowed, when a trial in which only characters, spaces
\* and backspaces were typed has ended, the recorded words joined by single
\* spaces are the recorded wholebuffer.
C35_WordsMatchWholebuffer ==
  (typing.trial.space_allowed /\ typing.results # << >> /\ OnlyText(typing.results[1]))
    => JoinWords(typing.results[1].words) = typing.results[1].wholebuffer
=============================================================================
